---- MODULE Spec2Model ----
(***************************************************************************)
(* Model of the SUBSCRIBE/NOTIFY subscriber dialog of                      *)
(* lib/Subscription.js: its fields, the runtime's pending timeouts, the    *)
(* request senders it has created and the notifications it emits.          *)
(* Times are in milliseconds, expiry values in seconds, as in the source.  *)
(***************************************************************************)
EXTENDS Integers, Sequences, FiniteSets, TLC

(* ---------------------------------------------------------------------- *)
(* Bounds of the model                                                     *)
(* ---------------------------------------------------------------------- *)
MaxCseq == 3
MaxTicks == 1
MaxListeners == 1
MaxSeconds == 110

(* ---------------------------------------------------------------------- *)
(* Program constants and inputs                                            *)
(* ---------------------------------------------------------------------- *)
MIN_SUBSCRIBE_EXPIRES == 10

\* ua.configuration.register_expires, the default of _expires
RegisterExpires == 60

\* Date.now() at construction, and the step by which the clock advances
StartTime == 100000
TickSteps == {5000}

\* Math.random() is RandNum / RandDen with RandNum \in RandNums
RandDen == 1000
RandNums == {0, 999}

\* the handle value of "no timer"
NullTimer == 0

\* a header that is absent (getHeader returns undefined)
NoHeader == -1

\* Expires header values of a 2xx response, in seconds
ResponseExpires == {NoHeader, 10}

\* status codes of responses
StatusCodes == {180, 200, 404}

\* expires=<n> values of a Subscription-State header
NotifyExpires == {0, 10}

\* Subscription-State headers: absent, a bare token, a token with another
\* parameter, a token with expires=<n>
SubscriptionStates ==
    {[present |-> FALSE, token |-> "", params |-> "none", n |-> 0]}
    \cup [present : {TRUE}, token : {"active", "pending", "terminated"},
          params : {"none"}, n : {0}]
    \cup [present : {TRUE}, token : {"terminated"},
          params : {"reason"}, n : {0}]
    \cup [present : {TRUE}, token : {"active"},
          params : {"expires"}, n : NotifyExpires]
    \cup [present : {TRUE}, token : {"terminated"},
          params : {"expires"}, n : {10}]

\* request methods delivered to receiveRequest
Methods == {"NOTIFY", "MESSAGE"}

\* options of subscribe(); expires 0 stands for "not given"
NoOptions ==
    [present |-> FALSE, expires |-> 0, refresh |-> FALSE,
     hasExtraHeaders |-> FALSE, extraHeaders |-> <<>>, eventHandlers |-> {}]

\* subscribe(), subscribe({}), subscribe({expires: 60}),
\* subscribe({expires: 120, refresh: true, extraHeaders: [...]}),
\* subscribe({eventHandlers: {subscriptionExpiring: f}})
OptionsSet ==
    {NoOptions,
     [NoOptions EXCEPT !.present = TRUE],
     [NoOptions EXCEPT !.present = TRUE, !.expires = 60],
     [NoOptions EXCEPT !.present = TRUE, !.expires = 120, !.refresh = TRUE,
                       !.hasExtraHeaders = TRUE,
                       !.extraHeaders = <<"X-Custom: 1">>],
     [NoOptions EXCEPT !.present = TRUE,
                       !.eventHandlers = {"subscriptionExpiring"}]}

VARIABLES
    cseq,                 \* this._cseq
    expires,              \* this._expires
    refresh,              \* this._refresh
    extraHeaders,         \* this._extraHeaders
    subscriptionRefresh,  \* this._subscriptionRefresh
    subscriptionTimer,    \* this._subscriptionTimer (NullTimer or a timer id)
    subscribing,          \* this._subscribing
    state,                \* this._state
    active,               \* this._active
    accepted,             \* this._accepted
    listeners,            \* number of listeners of 'subscriptionExpiring'
    timers,               \* the runtime's pending timeouts: [id, due]
    txs,                  \* request senders not yet completed, each with
                          \* the request it carries
    now,                  \* Date.now()
    emitted,              \* notifications emitted by the last step, in order
    uaCalls,              \* calls made on the owner by the last step, in order
    attempts,             \* requests sent plus authenticated retries so far
    everEmitted,          \* names of the lifecycle notifications emitted so far
    everCalled            \* names of the owner's methods called so far

vars ==
    <<cseq, expires, refresh, extraHeaders, subscriptionRefresh,
      subscriptionTimer, subscribing, state, active, accepted, listeners,
      timers, txs, now, emitted, uaCalls, attempts, everEmitted,
      everCalled>>

\* the dialog and what it has done so far, as one record
Self ==
    [cseq |-> cseq, expires |-> expires, refresh |-> refresh,
     extraHeaders |-> extraHeaders,
     subscriptionRefresh |-> subscriptionRefresh,
     subscriptionTimer |-> subscriptionTimer, subscribing |-> subscribing,
     state |-> state, active |-> active, accepted |-> accepted,
     listeners |-> listeners, timers |-> timers, txs |-> txs,
     emitted |-> <<>>, uaCalls |-> <<>>, threw |-> "none",
     attempts |-> attempts, everEmitted |-> everEmitted,
     everCalled |-> everCalled]

\* the next state is the record d; d.threw is the exception the operation
\* ended with, which goes to the caller and is not kept by the dialog
Commit(d) ==
    /\ cseq' = d.cseq
    /\ expires' = d.expires
    /\ refresh' = d.refresh
    /\ extraHeaders' = d.extraHeaders
    /\ subscriptionRefresh' = d.subscriptionRefresh
    /\ subscriptionTimer' = d.subscriptionTimer
    /\ subscribing' = d.subscribing
    /\ state' = d.state
    /\ active' = d.active
    /\ accepted' = d.accepted
    /\ listeners' = d.listeners
    /\ timers' = d.timers
    /\ txs' = d.txs
    /\ emitted' = d.emitted
    /\ uaCalls' = d.uaCalls
    /\ attempts' = d.attempts
    /\ everEmitted' = d.everEmitted
    /\ everCalled' = d.everCalled
    /\ d.cseq <= MaxCseq
    /\ d.listeners <= MaxListeners
    /\ now' = now

Init ==
    /\ cseq = 0
    /\ expires = RegisterExpires
    /\ refresh = FALSE
    /\ extraHeaders = <<>>
    /\ subscriptionRefresh = 0
    /\ subscriptionTimer = NullTimer
    /\ subscribing = FALSE
    /\ state = "TRYING"
    /\ active = FALSE
    /\ accepted = FALSE
    /\ listeners = 0
    /\ timers = {}
    /\ txs = <<>>
    /\ now = StartTime
    /\ emitted = <<>>
    /\ uaCalls = <<>>
    /\ attempts = 0
    /\ everEmitted = {}
    /\ everCalled = {}

(* ---------------------------------------------------------------------- *)
(* Helpers: the event emitter, the runtime's timers, the owner             *)
(* ---------------------------------------------------------------------- *)

\* the notifications of which everEmitted keeps a record
LifecycleEvents == {"accepted", "confirmed", "ended"}

\* this.emit(name, data): data.originator and data.cause are recorded
emit(d, name, originator, cause) ==
    [d EXCEPT
       !.emitted = Append(@, [name |-> name, originator |-> originator,
                              cause |-> cause]),
       !.everEmitted = @ \cup ({name} \cap LifecycleEvents)]

\* this._ua.newSubscription(this), this._ua.destroySubscription(this)
uaCall(d, name) ==
    [d EXCEPT !.uaCalls = Append(@, name), !.everCalled = @ \cup {name}]

\* names of the notifications emitted by the last step, in order
EmittedNames == [i \in 1..Len(emitted) |-> emitted[i].name]

\* number of notifications called name emitted by the last step
EmittedCount(name) ==
    Cardinality({i \in 1..Len(emitted) : emitted[i].name = name})

\* number of calls of the owner's method name made by the last step
CallCount(name) ==
    Cardinality({i \in 1..Len(uaCalls) : uaCalls[i] = name})

\* the timer is left armed
clearTimer_Skipped(d) == d

\* if (this._subscriptionTimer !== null) { clearTimeout(...); ... = null }
clearTimer(d) ==
    IF d.subscriptionTimer # NullTimer
    THEN [d EXCEPT
            !.timers = {t \in @ : t.id # d.subscriptionTimer},
            !.subscriptionTimer = NullTimer]
    ELSE d

\* this._subscriptionTimer = setTimeout(callback, timeout)
setTimer(d, timeout) ==
    LET used == {t.id : t \in d.timers}
        id == CHOOSE i \in 1..(Cardinality(used) + 1) : i \notin used
    IN  [d EXCEPT
           !.timers = @ \cup {[id |-> id, due |-> now + timeout]},
           !.subscriptionTimer = id]

\* JsSIP_C.causes.REQUEST_TIMEOUT and JsSIP_C.causes.CONNECTION_ERROR
REQUEST_TIMEOUT == "REQUEST_TIMEOUT"
CONNECTION_ERROR == "CONNECTION_ERROR"

\* Utils.sipErrorCause(status_code)
sipErrorCause(status) ==
    CASE status = 404 -> "NOT_FOUND"
      [] status = 486 -> "BUSY"
      [] OTHER -> "SIP_FAILURE_CODE"

\* String.prototype.toUpperCase on the Subscription-State tokens
toUpperCase(token) ==
    CASE token = "active" -> "ACTIVE"
      [] token = "pending" -> "PENDING"
      [] token = "terminated" -> "TERMINATED"
      [] OTHER -> token

(* ---------------------------------------------------------------------- *)
(* Methods of Subscription                                                 *)
(* ---------------------------------------------------------------------- *)

\* isEnded() reading the state instead of the accepted flag
isEnded_ByState(d) == ~d.subscribing /\ d.state = "TERMINATED"

\* isEnded()
isEnded(d) == ~d.subscribing /\ ~d.accepted

\* _unsubscribed(response, cause); response is "null" or a message,
\* cause is "undefined" when the argument is not passed
_unsubscribed(d, response, cause) ==
    LET originator ==
            IF response # "null" /\ cause # "undefined"
            THEN "remote" ELSE "local"
        d1 == [d EXCEPT !.state = "TERMINATED", !.subscribing = FALSE,
                        !.active = FALSE]
        d2 == emit(d1, "ended", originator, cause)
    IN  uaCall(d2, "destroySubscription")

\* _subscriptionFailure(response, cause)
_subscriptionFailure(d, response, cause) ==
    LET d1 == [d EXCEPT !.subscribing = FALSE]
    IN  IF d1.active
        THEN _unsubscribed([d1 EXCEPT !.active = FALSE], response, cause)
        ELSE d1

\* the delay computed without the floor of lines 217-218
refreshTimeout_NoFloor(seconds, rn) ==
    IF seconds > 64
    THEN (seconds * 1000) \div 2 + (((seconds - 64) * 500 * rn) \div RandDen)
    ELSE (seconds * 1000) - 5000

\* the delay computed by scheduleRefreshTimer; Math.random() = rn / RandDen
refreshTimeout(seconds, rn) ==
    LET s == IF seconds < MIN_SUBSCRIBE_EXPIRES
             THEN MIN_SUBSCRIBE_EXPIRES ELSE seconds
    IN  IF s > 64
        THEN (s * 1000) \div 2 + (((s - 64) * 500 * rn) \div RandDen)
        ELSE (s * 1000) - 5000

\* scheduleRefreshTimer(seconds) without the clearTimeout of lines 211-215
scheduleRefreshTimer_NoCancel(d, seconds, rn) ==
    LET timeout == refreshTimeout(seconds, rn)
        d2 == [d EXCEPT !.subscriptionRefresh = now + timeout]
    IN  setTimer(d2, timeout)

\* scheduleRefreshTimer(seconds)
scheduleRefreshTimer(d, seconds, rn) ==
    LET timeout == refreshTimeout(seconds, rn)
        d1 == clearTimer(d)
        d2 == [d1 EXCEPT !.subscriptionRefresh = now + timeout]
    IN  setTimer(d2, timeout)

\* new SIPMessage.OutgoingRequest(...) of subscribe(), built once cseq has
\* been incremented: the dialog parameters passed and the headers
subscribeRequest(d) ==
    [kind |-> "subscribe", cseq |-> d.cseq, from_tag |-> TRUE,
     call_id |-> TRUE, expires |-> d.expires,
     extraHeaders |-> d.extraHeaders]

\* new SIPMessage.OutgoingRequest(...) of unsubscribe(): from_uri is passed
\* and from_tag is not
unsubscribeRequest(d) ==
    [kind |-> "unsubscribe", cseq |-> d.cseq, from_tag |-> FALSE,
     call_id |-> TRUE, expires |-> 0, extraHeaders |-> d.extraHeaders]

\* new RequestSender(this._ua, request, ...) and request_sender.send(): the
\* sender holds the request until a terminal callback
send(d, request) ==
    [d EXCEPT
       !.txs = Append(@, [kind |-> request.kind, cseq |-> request.cseq,
                          from_tag |-> request.from_tag]),
       !.attempts = @ + 1]

\* subscribe(options); options is NoOptions when no argument is passed
subscribe(d, options) ==
    LET d1 == [d EXCEPT
                 !.expires = IF options.present /\ options.expires # 0
                                /\ options.expires >= 90
                             THEN options.expires ELSE @,
                 !.refresh = IF options.present /\ options.refresh
                             THEN options.refresh ELSE @,
                 !.extraHeaders = IF options.present /\ options.hasExtraHeaders
                                  THEN options.extraHeaders ELSE @]
    IN  IF d1.subscribing
        THEN d1
        ELSE IF ~options.present
        THEN \* options.eventHandlers of undefined
             [d1 EXCEPT !.threw = "TypeError"]
        ELSE LET d2 == [d1 EXCEPT
                          !.listeners =
                             IF "subscriptionExpiring" \in options.eventHandlers
                             THEN @ + 1 ELSE @,
                          !.cseq = @ + 1]
                 d3 == [d2 EXCEPT !.subscribing = TRUE]
             IN  send(d3, subscribeRequest(d3))

\* onReceiveResponse of the request sender created by subscribe()
subscribeOnReceiveResponse(d, response, rn) ==
    IF response.cseq # d.cseq
    THEN d
    ELSE LET d1 == clearTimer(d)
         IN  CASE response.status \div 100 = 1 -> d1
               [] response.status \div 100 = 2 ->
                    LET d2 == [d1 EXCEPT !.subscribing = FALSE]
                        exp == IF response.expires = NoHeader
                               THEN d2.expires ELSE response.expires
                        d3 == scheduleRefreshTimer(d2, exp, rn)
                    IN  IF ~d3.accepted
                        THEN emit(uaCall([d3 EXCEPT !.state = "ACCEPTED",
                                                    !.accepted = TRUE],
                                         "newSubscription"),
                                  "accepted", "remote", "undefined")
                        ELSE d3
               [] OTHER ->
                    _subscriptionFailure(d1, "response",
                                         sipErrorCause(response.status))

\* the callback armed by scheduleRefreshTimer
refreshTimerCallback(d) ==
    LET d1 == [d EXCEPT !.subscriptionTimer = NullTimer]
    IN  IF d1.listeners > 0
        THEN emit(d1, "subscriptionExpiring", "local", "undefined")
        ELSE IF d1.refresh
        THEN subscribe(d1, NoOptions)
        ELSE d1

\* receiveRequest(request)
receiveRequest(d, request, rn) ==
    IF request.method # "NOTIFY"
    THEN d
    ELSE LET d1 == IF d.accepted /\ ~d.active
                   THEN emit([d EXCEPT !.active = TRUE],
                             "confirmed", "remote", "undefined")
                   ELSE d
             subsState == request.subsState
             d2 == IF ~subsState.present
                   THEN d1
                   ELSE IF subsState.params # "none"
                   THEN LET d1a == [d1 EXCEPT
                                      !.state = toUpperCase(subsState.token)]
                            candidate == now + 1000 * subsState.n - 3000
                        IN  IF subsState.params = "expires"
                               /\ d1a.state = "ACTIVE"
                               /\ candidate < d1a.subscriptionRefresh
                            THEN scheduleRefreshTimer(d1a, subsState.n, rn)
                            ELSE d1a
                   ELSE [d1 EXCEPT !.state = toUpperCase(subsState.token)]
             d3 == emit(d2, "notify", "remote", "undefined")
         IN  IF d3.state = "TERMINATED"
             THEN _unsubscribed(clearTimer(d3), "request", "Terminated")
             ELSE d3

\* unsubscribe(options)
unsubscribe(d) ==
    IF isEnded(d)
    THEN d
    ELSE LET d1 == [d EXCEPT !.state = "TERMINATED", !.active = FALSE,
                             !.accepted = FALSE]
             d2 == clearTimer(d1)
             d3 == [d2 EXCEPT !.cseq = @ + 1]
         IN  send(d3, unsubscribeRequest(d3))

\* onReceiveResponse of the request sender created by unsubscribe()
unsubscribeOnReceiveResponse(d, response) ==
    CASE response.status \div 100 = 1 -> d
      [] response.status \div 100 = 2 ->
           _unsubscribed(d, "response", "undefined")
      [] OTHER ->
           _unsubscribed(d, "response", sipErrorCause(response.status))

\* terminate(options): the call of the unbound name unsubscribe throws
terminate(d) == [d EXCEPT !.threw = "ReferenceError"]

\* close(): this.unsubscribed is not a function
close(d) == IF d.active THEN [d EXCEPT !.threw = "TypeError"] ELSE d

\* onTransportClosed() without the clearTimeout of lines 388-392
onTransportClosed_KeepsTimer(d) ==
    LET d1 == [d EXCEPT !.subscribing = FALSE]
    IN  IF d1.active
        THEN _unsubscribed([d1 EXCEPT !.active = FALSE], "null",
                           CONNECTION_ERROR)
        ELSE d1

\* onTransportClosed()
onTransportClosed(d) ==
    LET d1 == clearTimer([d EXCEPT !.subscribing = FALSE])
    IN  IF d1.active
        THEN _unsubscribed([d1 EXCEPT !.active = FALSE], "null",
                           CONNECTION_ERROR)
        ELSE d1

(* ---------------------------------------------------------------------- *)
(* The request senders: each calls onAuthenticated any number of times     *)
(* and then one terminal callback                                          *)
(* ---------------------------------------------------------------------- *)

\* seq without its i-th element
RemoveAt(seq, i) ==
    [j \in 1..(Len(seq) - 1) |-> IF j < i THEN seq[j] ELSE seq[j + 1]]

\* the request sender i has completed
complete(d, i) == [d EXCEPT !.txs = RemoveAt(@, i)]

\* onRequestTimeout / onTransportError of request sender i
onFailure(d, i, cause) ==
    IF d.txs[i].kind = "subscribe"
    THEN _subscriptionFailure(complete(d, i), "null", cause)
    ELSE _unsubscribed(complete(d, i), "null", cause)

\* the retry goes out and the dialog's cseq is not incremented
onAuthenticated_NoIncrement(d, i) ==
    [d EXCEPT !.txs[i].cseq = @ + 1,
              !.attempts = @ + 1]

\* onAuthenticated of request sender i: the retry carries the next CSeq
onAuthenticated(d, i) ==
    [d EXCEPT !.cseq = @ + 1,
              !.txs[i].cseq = @ + 1,
              !.attempts = @ + 1]

\* onReceiveResponse of request sender i; a final response completes it
onReceiveResponse(d, i, status, expiresHeader, rn) ==
    LET response == [status |-> status, cseq |-> d.txs[i].cseq,
                     expires |-> expiresHeader]
        d1 == IF status >= 200 THEN complete(d, i) ELSE d
    IN  IF d.txs[i].kind = "subscribe"
        THEN subscribeOnReceiveResponse(d1, response, rn)
        ELSE unsubscribeOnReceiveResponse(d1, response)

(* ---------------------------------------------------------------------- *)
(* Actions                                                                 *)
(* ---------------------------------------------------------------------- *)

Subscribe ==
    \E options \in OptionsSet :
        /\ options.present \in BOOLEAN
        /\ Commit(subscribe(Self, options))

Unsubscribe ==
    /\ Commit(unsubscribe(Self))

Terminate ==
    /\ Commit(terminate(Self))

Close ==
    /\ Commit(close(Self))

OnTransportClosed ==
    /\ Commit(onTransportClosed(Self))

ReceiveRequest ==
    \E method \in Methods, subsState \in SubscriptionStates, rn \in RandNums :
        /\ method = "NOTIFY" \/ (~subsState.present /\ rn = 0)
        /\ subsState.n > 64 \/ rn = 0
        /\ Commit(receiveRequest(Self, [method |-> method,
                                        subsState |-> subsState], rn))

OnRequestTimeout ==
    \E i \in 1..Len(txs) :
        Commit(onFailure(Self, i, REQUEST_TIMEOUT))

OnTransportError ==
    \E i \in 1..Len(txs) :
        Commit(onFailure(Self, i, CONNECTION_ERROR))

OnAuthenticated ==
    \E i \in 1..Len(txs) :
        Commit(onAuthenticated(Self, i))

OnReceiveResponse ==
    \E i \in 1..Len(txs), status \in StatusCodes,
       expiresHeader \in ResponseExpires, rn \in RandNums :
        /\ status \div 100 = 2 \/ expiresHeader = NoHeader
        /\ \/ rn = 0
           \/ /\ status \div 100 = 2
              /\ (IF expiresHeader = NoHeader
                  THEN expires ELSE expiresHeader) > 64
        /\ Commit(onReceiveResponse(Self, i, status, expiresHeader, rn))

\* a pending timeout whose delay has elapsed runs its callback
TimerFire ==
    \E t \in timers :
        /\ t.due <= now
        /\ Commit(refreshTimerCallback([Self EXCEPT !.timers = @ \ {t}]))

\* the clock advances
Tick ==
    \E step \in TickSteps :
        /\ now + step <= StartTime + MaxTicks * step
        /\ now' = now + step
        /\ emitted' = <<>>
        /\ uaCalls' = <<>>
        /\ UNCHANGED <<cseq, expires, refresh, extraHeaders,
                       subscriptionRefresh, subscriptionTimer, subscribing,
                       state, active, accepted, listeners, timers, txs,
                       attempts, everEmitted, everCalled>>

Next ==
    \/ TimerFire
    \/ OnReceiveResponse
    \/ OnRequestTimeout
    \/ OnTransportError
    \/ OnAuthenticated
    \/ ReceiveRequest
    \/ Subscribe
    \/ Unsubscribe
    \/ Terminate
    \/ Close
    \/ OnTransportClosed
    \/ Tick

Spec == Init /\ [][Next]_vars

(* ---------------------------------------------------------------------- *)
(* scheduleRefreshTimer alone, over a range of its argument                *)
(* ---------------------------------------------------------------------- *)

\* the values of seconds passed to scheduleRefreshTimer
Seconds == -2..MaxSeconds

\* scheduleRefreshTimer(seconds) on a dialog, at any time after construction
ScheduleRefreshTimer ==
    \E seconds \in Seconds, rn \in RandNums :
        Commit(scheduleRefreshTimer(Self, seconds, rn))

SpecScheduling == Init /\ [][ScheduleRefreshTimer]_vars

(* ---------------------------------------------------------------------- *)
(* The variant of the dialog that handles 423 (Interval Too Brief). It has *)
(* no state field and emits no notification of its own; its request        *)
(* building, its timers and its request senders are those above.           *)
(* ---------------------------------------------------------------------- *)

\* JsSIP_C.causes.SIP_FAILURE_CODE
SIP_FAILURE_CODE == "SIP_FAILURE_CODE"

\* response.getHeader('min-expires') of a 423: absent, below the floor, above
MinExpires == {NoHeader, 5, 120}

\* the Contact of a 2xx: none, none with the user of ua.contact, or ours
Contacts == {"none", "other", "ours"}

\* the status codes of the responses to the variant's requests
VariantStatusCodes == {180, 200, 404, 423}

\* _unsubscribed(response, cause)
v_unsubscribed(d, response, cause) ==
    [d EXCEPT !.subscribing = FALSE, !.active = FALSE]

\* _subscriptionFailure(response, cause)
v_subscriptionFailure(d, response, cause) ==
    LET d1 == [d EXCEPT !.subscribing = FALSE]
    IN  IF d1.active
        THEN v_unsubscribed([d1 EXCEPT !.active = FALSE], response, cause)
        ELSE d1

\* subscribe(options)
v_subscribe(d, options) ==
    LET d1 == [d EXCEPT
                 !.expires = IF options.present /\ options.expires # 0
                                /\ options.expires >= 90
                             THEN options.expires ELSE @,
                 !.refresh = IF options.present /\ options.refresh
                             THEN options.refresh ELSE @,
                 !.extraHeaders = IF options.present /\ options.hasExtraHeaders
                                  THEN options.extraHeaders ELSE @]
    IN  IF d1.subscribing
        THEN d1
        ELSE LET d2 == [d1 EXCEPT !.cseq = @ + 1]
                 d3 == [d2 EXCEPT !.subscribing = TRUE]
             IN  send(d3, subscribeRequest(d3))

\* the callback of the timeout armed by a 2xx
v_refreshTimerCallback(d) ==
    LET d1 == [d EXCEPT !.subscriptionTimer = NullTimer]
    IN  IF d1.listeners = 0
        THEN v_subscribe(d1, NoOptions)
        ELSE uaCall(d1, "emit subscriptionExpiring")

\* onReceiveResponse of the request sender created by subscribe()
v_subscribeOnReceiveResponse(d, response, rn) ==
    IF response.cseq # d.cseq
    THEN d
    ELSE LET d1 == clearTimer(d)
         IN  CASE response.status \div 100 = 1 -> d1
               [] response.status \div 100 = 2 ->
                    LET d2 == [d1 EXCEPT !.subscribing = FALSE]
                        exp == IF response.expires = NoHeader
                               THEN d2.expires ELSE response.expires
                    IN  IF response.contact # "ours"
                        THEN d2
                        ELSE [setTimer(d2, refreshTimeout(exp, rn))
                                EXCEPT !.active = TRUE]
               [] response.status = 423 ->
                    IF response.minExpires # NoHeader
                    THEN LET m == response.minExpires
                             d2 == [d1 EXCEPT !.expires =
                                      IF m < MIN_SUBSCRIBE_EXPIRES
                                      THEN MIN_SUBSCRIBE_EXPIRES ELSE m]
                         IN  v_subscribe(d2, NoOptions)
                    ELSE v_subscriptionFailure(d1, "response",
                                               SIP_FAILURE_CODE)
               [] OTHER ->
                    v_subscriptionFailure(d1, "response",
                                          sipErrorCause(response.status))

\* unsubscribe(options)
v_unsubscribe(d) ==
    IF ~d.active
    THEN d
    ELSE LET d1 == clearTimer([d EXCEPT !.active = FALSE])
             d2 == [d1 EXCEPT !.cseq = @ + 1]
         IN  send(d2, unsubscribeRequest(d2))

\* onReceiveResponse of the request sender created by unsubscribe()
v_unsubscribeOnReceiveResponse(d, response) ==
    CASE response.status \div 100 = 1 -> d
      [] response.status \div 100 = 2 ->
           v_unsubscribed(d, "response", "undefined")
      [] OTHER ->
           v_unsubscribed(d, "response", sipErrorCause(response.status))

\* onTransportClosed(): with active set, the arguments of the call of
\* _unsubscribed are unbound names and their evaluation throws
v_onTransportClosed(d) ==
    LET d1 == clearTimer([d EXCEPT !.subscribing = FALSE])
    IN  IF d1.active
        THEN [d1 EXCEPT !.active = FALSE, !.threw = "ReferenceError"]
        ELSE d1

\* onRequestTimeout / onTransportError of request sender i
v_onFailure(d, i, cause) ==
    IF d.txs[i].kind = "subscribe"
    THEN v_subscriptionFailure(complete(d, i), "null", cause)
    ELSE v_unsubscribed(complete(d, i), "null", cause)

\* onReceiveResponse of request sender i; a final response completes it
v_onReceiveResponse(d, i, status, contact, expiresHeader, minExpires, rn) ==
    LET response == [status |-> status, cseq |-> d.txs[i].cseq,
                     contact |-> contact, expires |-> expiresHeader,
                     minExpires |-> minExpires]
        d1 == IF status >= 200 THEN complete(d, i) ELSE d
    IN  IF d.txs[i].kind = "subscribe"
        THEN v_subscribeOnReceiveResponse(d1, response, rn)
        ELSE v_unsubscribeOnReceiveResponse(d1, response)

V_Subscribe ==
    \E options \in OptionsSet :
        /\ options.eventHandlers = {}
        /\ Commit(v_subscribe(Self, options))

V_Unsubscribe ==
    /\ Commit(v_unsubscribe(Self))

V_OnTransportClosed ==
    /\ Commit(v_onTransportClosed(Self))

V_OnRequestTimeout ==
    \E i \in 1..Len(txs) :
        Commit(v_onFailure(Self, i, REQUEST_TIMEOUT))

V_OnTransportError ==
    \E i \in 1..Len(txs) :
        Commit(v_onFailure(Self, i, CONNECTION_ERROR))

V_OnReceiveResponse ==
    \E i \in 1..Len(txs), status \in VariantStatusCodes,
       contact \in Contacts, expiresHeader \in ResponseExpires,
       minExpires \in MinExpires, rn \in RandNums :
        /\ status \div 100 = 2
              \/ (contact = "none" /\ expiresHeader = NoHeader)
        /\ status = 423 \/ minExpires = NoHeader
        /\ \/ rn = 0
           \/ /\ status \div 100 = 2
              /\ (IF expiresHeader = NoHeader
                  THEN expires ELSE expiresHeader) > 64
        /\ Commit(v_onReceiveResponse(Self, i, status, contact,
                                      expiresHeader, minExpires, rn))

\* a pending timeout whose delay has elapsed runs its callback
V_TimerFire ==
    \E t \in timers :
        /\ t.due <= now
        /\ Commit(v_refreshTimerCallback([Self EXCEPT !.timers = @ \ {t}]))

\* ua.on('subscriptionExpiring', listener), by the application
V_UaOn ==
    /\ Commit([Self EXCEPT !.listeners = @ + 1])

VariantNext ==
    \/ V_TimerFire
    \/ V_OnReceiveResponse
    \/ V_OnRequestTimeout
    \/ V_OnTransportError
    \/ OnAuthenticated
    \/ V_Subscribe
    \/ V_Unsubscribe
    \/ V_OnTransportClosed
    \/ V_UaOn
    \/ Tick

SpecVariant == Init /\ [][VariantNext]_vars

(* ---------------------------------------------------------------------- *)
(* Properties                                                              *)
(* ---------------------------------------------------------------------- *)

\* the last step emitted "ended" with this cause and left state TERMINATED
EndedWith(cause) ==
    /\ state = "TERMINATED"
    /\ \E k \in 1..Len(emitted) :
          emitted[k].name = "ended" /\ emitted[k].cause = cause

\* a NOTIFY request with this Subscription-State header
Notify(subsState) == [method |-> "NOTIFY", subsState |-> subsState]

\* C1: over any interleaving of the operations, "ended" is emitted at most
\* once per dialog and ua.destroySubscription is called at most once per
\* dialog.
C1_EndedAtMostOnce ==
    [][/\ EmittedCount("ended")'
            + (IF "ended" \in everEmitted THEN 1 ELSE 0) <= 1
       /\ CallCount("destroySubscription")'
            + (IF "destroySubscription" \in everCalled THEN 1 ELSE 0) <= 1
      ]_vars

\* C2: every terminal failure of a SUBSCRIBE transaction issued by
\* subscribe() (request timeout, transport error, or a non-2xx final
\* response with the current cseq), in whatever state the dialog is, leaves
\* state TERMINATED and emits "ended" with the matching cause.
C2_FailureTerminates ==
    [][\A i \in 1..Len(txs) :
          txs[i].kind = "subscribe" =>
             /\ Commit(onFailure(Self, i, REQUEST_TIMEOUT))
                   => EndedWith(REQUEST_TIMEOUT)'
             /\ Commit(onFailure(Self, i, CONNECTION_ERROR))
                   => EndedWith(CONNECTION_ERROR)'
             /\ \A status \in StatusCodes :
                   /\ status >= 300
                   /\ txs[i].cseq = cseq
                   /\ Commit(onReceiveResponse(Self, i, status, NoHeader, 0))
                   => EndedWith(sipErrorCause(status))'
      ]_vars

\* C3: TERMINATED is absorbing: once state is TERMINATED it never takes
\* another value, and the only request sent afterwards is a tear-down
\* SUBSCRIBE of unsubscribe.
C3_TerminatedAbsorbing ==
    [][state = "TERMINATED" =>
          /\ state' = "TERMINATED"
          /\ Len(txs') > Len(txs) => txs'[Len(txs')].kind = "unsubscribe"
      ]_vars

\* C4: a response delivered to either request sender of the dialog whose
\* cseq differs from the dialog's current cseq leaves state, accepted,
\* active, the pending-request flag and the refresh timer unchanged and
\* emits no notification.
C4_StaleResponseIgnored ==
    [][\A i \in 1..Len(txs), status \in StatusCodes,
          expiresHeader \in ResponseExpires :
          /\ txs[i].cseq # cseq
          /\ Commit(onReceiveResponse(Self, i, status, expiresHeader, 0))
          => /\ UNCHANGED <<state, accepted, active, subscribing,
                            subscriptionTimer, timers>>
             /\ emitted' = <<>>
      ]_vars

\* C5: at every instant at most one SUBSCRIBE transaction of the dialog is
\* outstanding, and the pending-request flag is true whenever one is.
C5_SingleOutstanding ==
    /\ Len(txs) <= 1
    /\ Len(txs) >= 1 => subscribing

\* C6: in every state where "ended" has been emitted or state is
\* TERMINATED, no refresh timer is armed.
C6_NoTimerAfterEnd ==
    ("ended" \in everEmitted \/ state = "TERMINATED")
       => subscriptionTimer = NullTimer /\ timers = {}

\* C7: when the refresh timer fires: with a listener of subscriptionExpiring
\* that notification is emitted and nothing is sent; otherwise, with
\* autoRefresh set and no request pending, a refresh SUBSCRIBE is sent
\* (cseq incremented by one, the pending flag set); otherwise nothing is
\* sent.
C7_TimerFire ==
    [][\A t \in timers :
          /\ t.due <= now
          /\ Commit(refreshTimerCallback([Self EXCEPT !.timers = @ \ {t}]))
          => IF listeners > 0
             THEN /\ EmittedCount("subscriptionExpiring")' = 1
                  /\ txs' = txs /\ cseq' = cseq
             ELSE IF refresh /\ ~subscribing
             THEN /\ cseq' = cseq + 1
                  /\ subscribing'
                  /\ Len(txs') = Len(txs) + 1
                  /\ txs'[Len(txs')].kind = "subscribe"
             ELSE txs' = txs /\ cseq' = cseq
      ]_vars

\* C8: cseq starts at 0, never decreases, and always equals the number of
\* request attempts made so far (requests sent by subscribe, tear-down
\* requests sent by unsubscribe, authenticated retries); a subscribe call
\* suppressed by the pending-request guard does not change cseq.
C8_CseqCountsAttempts ==
    /\ cseq = attempts
    /\ cseq >= 0
    /\ \A options \in OptionsSet :
          subscribing =>
             LET d == subscribe(Self, options)
             IN  d.cseq = cseq /\ d.txs = txs /\ d.attempts = attempts

\* a retried request and a later tear-down request are both outstanding
\* with the same CSeq, and all three attempts are counted
C8_Witness ==
    /\ cseq = 3
    /\ attempts = 3
    /\ \E i, j \in 1..Len(txs) :
          /\ txs[i].kind = "subscribe"
          /\ txs[j].kind = "unsubscribe"
          /\ txs[i].cseq = txs[j].cseq

\* C9: a NOTIFY with Subscription-State active;expires=n re-arms the refresh
\* timer only when now + n*1000 - 3000 is earlier than the recorded refresh
\* deadline, and for every n it never moves the refresh deadline to a later
\* instant.
C9_NotifyNeverLengthens ==
    [][\A n \in NotifyExpires, rn \in RandNums :
          Commit(receiveRequest(Self,
                    Notify([present |-> TRUE, token |-> "active",
                            params |-> "expires", n |-> n]), rn))
          => /\ \/ now + n * 1000 - 3000 < subscriptionRefresh
                \/ UNCHANGED <<timers, subscriptionTimer,
                               subscriptionRefresh>>
             /\ subscriptionRefresh' <= subscriptionRefresh
      ]_vars

\* C10: a NOTIFY whose Subscription-State token is terminated, with or
\* without parameters, received in any state of the dialog, leaves no
\* refresh timer armed, sets state to TERMINATED and emits exactly one
\* "ended", whose cause is "Terminated".
C10_NotifyTerminated ==
    \A subsState \in SubscriptionStates :
       subsState.present /\ subsState.token = "terminated" =>
          LET d == receiveRequest(Self, Notify(subsState), 0)
              ended == {k \in 1..Len(d.emitted) : d.emitted[k].name = "ended"}
          IN  /\ d.subscriptionTimer = NullTimer
              /\ d.timers = {}
              /\ d.state = "TERMINATED"
              /\ Cardinality(ended) = 1
              /\ \A k \in ended : d.emitted[k].cause = "Terminated"

\* a confirmed dialog whose refresh deadline was still ahead has just been
\* terminated by a NOTIFY
C10_Witness ==
    /\ state = "TERMINATED"
    /\ subscriptionTimer = NullTimer
    /\ accepted
    /\ "confirmed" \in everEmitted
    /\ subscriptionRefresh > now
    /\ \E k \in 1..Len(emitted) :
          emitted[k].name = "ended" /\ emitted[k].cause = "Terminated"

\* C11: every change of state of a dialog that has not terminated follows
\* TRYING -> ACCEPTED -> ACTIVE (or another token of a NOTIFY): state
\* never returns to TRYING, becomes ACCEPTED only from TRYING, and becomes
\* ACTIVE or PENDING only from a state other than TRYING.
C11_StateOrder ==
    [][state # "TERMINATED" /\ state' # state =>
          /\ state' # "TRYING"
          /\ state' = "ACCEPTED" => state = "TRYING"
          /\ state' \in {"ACTIVE", "PENDING"} => state # "TRYING"
      ]_vars

\* the names of the notifications emitted by a handler, in order
Names(d) == [k \in 1..Len(d.emitted) |-> d.emitted[k].name]

\* C12: the end-to-end run. On a dialog that awaits the response to its
\* SUBSCRIBE, a 2xx with the current cseq gives state ACCEPTED, accepted
\* true and one armed refresh timer; on that dialog a NOTIFY with
\* Subscription-State: active makes active true and emits one "confirmed"
\* and then one "notify"; on that dialog onTransportClosed emits "ended"
\* once, with cause CONNECTION_ERROR, calls destroySubscription and leaves
\* no timer armed.
C12_EndToEnd ==
    /\ \A i \in 1..Len(txs), h \in ResponseExpires, rn \in RandNums :
          /\ state = "TRYING" /\ ~accepted
          /\ txs[i].kind = "subscribe" /\ txs[i].cseq = cseq
          => LET d == onReceiveResponse(Self, i, 200, h, rn)
             IN  /\ d.state = "ACCEPTED"
                 /\ d.accepted
                 /\ Cardinality(d.timers) = 1
                 /\ d.subscriptionTimer # NullTimer
    /\ state = "ACCEPTED" /\ accepted /\ ~active
          => LET d == receiveRequest(Self,
                         Notify([present |-> TRUE, token |-> "active",
                                 params |-> "none", n |-> 0]), 0)
             IN  d.active /\ Names(d) = <<"confirmed", "notify">>
    /\ state = "ACTIVE" /\ accepted /\ active
          => LET d == onTransportClosed(Self)
             IN  /\ Names(d) = <<"ended">>
                 /\ d.emitted[1].cause = CONNECTION_ERROR
                 /\ d.uaCalls = <<"destroySubscription">>
                 /\ d.timers = {}
                 /\ d.subscriptionTimer = NullTimer

\* the run has been made: subscribe with expires 120, its 2xx, a NOTIFY
\* and the loss of the transport, with no other request sent
C12_Witness ==
    /\ expires = 120
    /\ cseq = 1
    /\ txs = <<>>
    /\ state = "TERMINATED"
    /\ accepted
    /\ {"accepted", "confirmed"} \subseteq everEmitted
    /\ Len(emitted) = 1
    /\ emitted[1].name = "ended"
    /\ emitted[1].cause = CONNECTION_ERROR
    /\ timers = {}

\* C13: the first 2xx with the current cseq to a SUBSCRIBE of subscribe sets
\* state ACCEPTED and accepted, calls ua.newSubscription and emits
\* "accepted"; over the life of the dialog "accepted" is emitted at most
\* once and ua.newSubscription is called at most once.
C13_AcceptedOnce ==
    [][/\ \A i \in 1..Len(txs), h \in ResponseExpires, rn \in RandNums :
             /\ "accepted" \notin everEmitted
             /\ txs[i].kind = "subscribe" /\ txs[i].cseq = cseq
             /\ Commit(onReceiveResponse(Self, i, 200, h, rn))
             => /\ state' = "ACCEPTED" /\ accepted'
                /\ EmittedCount("accepted")' = 1
                /\ CallCount("newSubscription")' = 1
       /\ EmittedCount("accepted")'
            + (IF "accepted" \in everEmitted THEN 1 ELSE 0) <= 1
       /\ CallCount("newSubscription")'
            + (IF "newSubscription" \in everCalled THEN 1 ELSE 0) <= 1
      ]_vars

\* C14: at every instant at most one refresh timer is pending and it is the
\* one the dialog holds the handle of (a replaced timer never fires); and
\* handling a 2xx with the current cseq to a SUBSCRIBE of subscribe leaves
\* exactly one refresh timer armed and the pending-request flag false.
C14_SingleTimer ==
    /\ Cardinality(timers) <= 1
    /\ \A t \in timers : t.id = subscriptionTimer
    /\ \A i \in 1..Len(txs), h \in ResponseExpires, rn \in RandNums :
          txs[i].kind = "subscribe" /\ txs[i].cseq = cseq
          => LET d == onReceiveResponse(Self, i, 200, h, rn)
             IN  /\ Cardinality(d.timers) = 1
                 /\ \A t \in d.timers : t.id = d.subscriptionTimer
                 /\ ~d.subscribing

\* a refresh SUBSCRIBE sent after the clock advanced has been answered by a
\* 2xx without Expires: the timer armed by the first 2xx has been replaced
C14_Witness ==
    /\ cseq = 2
    /\ txs = <<>>
    /\ accepted /\ active
    /\ ~subscribing
    /\ now = StartTime + 5000
    /\ timers = {[id |-> 1, due |-> now + 55000]}
    /\ subscriptionTimer = 1

\* C15: subscribe(options) called while a request is pending is a no-op,
\* whatever the options: no request is sent and cseq, the requested expires,
\* the refresh flag, the stored extra headers, the registered listeners,
\* state and the refresh timer are left as they were.
C15_SubscribeWhilePending ==
    [][\A options \in OptionsSet :
          subscribing /\ Commit(subscribe(Self, options))
          => UNCHANGED <<txs, cseq, expires, refresh, extraHeaders,
                         listeners, state, timers, subscriptionTimer>>
      ]_vars

\* C16: unsubscribe() on a dialog with no request pending and accepted false
\* (never accepted, or already torn down) is a no-op: no request is sent,
\* cseq, state and the timer are unchanged and no notification is emitted.
C16_UnsubscribeWhenEnded ==
    ~subscribing /\ ~accepted =>
       LET d == unsubscribe(Self)
       IN  /\ d.txs = txs /\ d.cseq = cseq
           /\ d.state = state
           /\ d.timers = timers /\ d.subscriptionTimer = subscriptionTimer
           /\ d.emitted = <<>> /\ d.uaCalls = <<>>

\* a dialog that was accepted and then torn down: the tear-down has been
\* answered and nothing is pending
C16_Witness ==
    /\ ~subscribing /\ ~accepted
    /\ state = "TERMINATED"
    /\ txs = <<>>
    /\ cseq = 2
    /\ {"accepted", "ended"} \subseteq everEmitted

\* C17: terminate(options) is equivalent to unsubscribe(options): in every
\* reachable state of the dialog the two calls give the same state,
\* accepted, active, cseq and timer and send the same request.
C17_TerminateIsUnsubscribe ==
    LET t == terminate(Self)
        u == unsubscribe(Self)
    IN  /\ t.state = u.state
        /\ t.accepted = u.accepted
        /\ t.active = u.active
        /\ t.cseq = u.cseq
        /\ t.timers = u.timers /\ t.subscriptionTimer = u.subscriptionTimer
        /\ t.txs = u.txs

\* C18: every received NOTIFY emits exactly one "notify"; "confirmed" is
\* emitted only by a NOTIFY received while accepted is true and active is
\* false, before that NOTIFY's "notify", never before "accepted" has been
\* emitted, and at most once over the life of the dialog.
C18_NotifyAndConfirmed ==
    [][/\ \A subsState \in SubscriptionStates, rn \in RandNums :
             Commit(receiveRequest(Self, Notify(subsState), rn))
             => EmittedCount("notify")' = 1
       /\ EmittedCount("confirmed")' >= 1
             => /\ accepted /\ ~active
                /\ "accepted" \in everEmitted
                /\ emitted'[1].name = "confirmed"
                /\ EmittedCount("notify")' = 1
       /\ EmittedCount("confirmed")'
            + (IF "confirmed" \in everEmitted THEN 1 ELSE 0) <= 1
      ]_vars

C20_IntervalTooBrief ==
    [][\A i \in 1..Len(txs), m \in MinExpires :
          /\ txs[i].kind = "subscribe" /\ txs[i].cseq = cseq
          /\ Commit(v_onReceiveResponse(Self, i, 423, "none", NoHeader, m, 0))
          => /\ m # NoHeader =>
                   /\ expires' = (IF m > 10 THEN m ELSE 10)
                   /\ cseq' = cseq + 1
                   /\ \E j \in 1..Len(txs') :
                         txs'[j].kind = "subscribe" /\ txs'[j].cseq = cseq'
             /\ m = NoHeader => ~subscribing' /\ ~active'
             /\ ~(subscribing' /\ txs' = <<>>)
      ]_vars

\* C21: the owner's registry stays consistent with the dialog:
\* ua.destroySubscription is called only while the dialog is registered,
\* ua.newSubscription is never called while it is registered, and a dialog
\* on which "ended" has fired is not registered, then or later. As long as
\* this has held the dialog is registered exactly when newSubscription has
\* been called and destroySubscription has not, so the first step that
\* breaks it is: a destroySubscription not preceded by a newSubscription or
\* preceded by a destroySubscription, a newSubscription preceded by either
\* call, or an "ended" without a destroySubscription.
C21_RegistryConsistent ==
    [][/\ CallCount("destroySubscription")' >= 1
             => /\ "newSubscription" \in everCalled
                /\ "destroySubscription" \notin everCalled
                /\ CallCount("destroySubscription")' = 1
       /\ CallCount("newSubscription")' >= 1
             => /\ "newSubscription" \notin everCalled
                /\ "destroySubscription" \notin everCalled
                /\ CallCount("newSubscription")' = 1
       /\ EmittedCount("ended")' >= 1
             => CallCount("destroySubscription")' >= 1
      ]_vars

\* C22: every request the dialog sends, from subscribe or the tear-down of
\* unsubscribe, is built with the identity fixed at construction: both the
\* dialog's call_id and its from_tag are passed to the request builder.
C22_DialogIdentity ==
    [][Len(txs') > Len(txs) =>
          LET sent == txs'[Len(txs')]
              request == IF sent.kind = "subscribe"
                         THEN subscribeRequest(Self)'
                         ELSE unsubscribeRequest(Self)'
          IN  /\ request.call_id
              /\ request.from_tag
              /\ sent.from_tag
      ]_vars

====
